---------------------------- MODULE Spec2Model ----------------------------
(***************************************************************************)
(* A model of src/app.py: the /generate and /download handlers of the      *)
(* Flask application, the process-wide artifact store GENERATED, the       *)
(* input normalisation of generate and the equation decorator.             *)
(*                                                                         *)
(* Text is modelled as a sequence of one-character strings, so that        *)
(* strip, escape and the two regular expressions work on characters as     *)
(* they do in Python.  A Python value that may be None is a record         *)
(* [some, v]: None is [some |-> FALSE], a str is [some |-> TRUE, v |-> s]. *)
(***************************************************************************)
EXTENDS Integers, Sequences, FiniteSets, TLC

VARIABLES
    GENERATED,   \* app.py:16, the dict id -> pdf bytes
    worker,      \* each worker context's request in progress (locals, position)
    last,        \* history: the request answered most recently, with its response
    issued,      \* history: the pdf_id values returned to callers so far
    put_log,     \* history: id -> the bytes generate stored under it
    ndata,       \* input normaliser alone: the request mapping
    npc,         \* input normaliser alone: position
    nout,        \* input normaliser alone: its result
    text,        \* equation decorator alone: the text first given
    fragment,    \* equation decorator alone: the current text
    prev,        \* equation decorator alone: the text before the last run
    runs         \* equation decorator alone: runs of decorate_equations so far

vars == <<GENERATED, worker, last, issued, put_log, ndata, npc, nout, text, fragment, prev, runs>>
serverVars == <<GENERATED, worker, last, issued, put_log>>
normVars == <<ndata, npc, nout>>
decVars == <<text, fragment, prev, runs>>

---------------------------------------------------------------------------
(* Bounds of the model.                                                    *)

\* how many worker contexts handle requests at the same time
NumWorkers == 2
\* how many identifiers uuid4 can draw, hence how many artifacts are stored
MaxIds == 2
\* the longest text given to the decorator, counted in pieces (see Pieces)
MaxPieces == 5
\* how many times in a row the decorator is run on its own output
MaxRuns == 2
\* the longest raw field value given to the input normaliser alone
MaxFieldLen == 2

---------------------------------------------------------------------------
(* Python values.                                                          *)

None == [some |-> FALSE, v |-> <<>>]
Str(s) == [some |-> TRUE, v |-> s]

\* Python's `x or d` for x a str or None and d a str: x when x is truthy
\* (a non-empty str), d otherwise.
OrElse(x, d) == IF x.some /\ x.v # <<>> THEN x.v ELSE d

\* str.isspace for one character
IsSpace(c) == c \in {" ", "\t", "\n"}

Min(S) == CHOOSE x \in S : \A y \in S : x <= y
Max(S) == CHOOSE x \in S : \A y \in S : x >= y

\* str.strip(): leading and trailing whitespace removed, which leaves the
\* text from its first to its last non-space character
strip(s) ==
    LET N == {i \in 1..Len(s) : ~IsSpace(s[i])}
    IN IF N = {} THEN <<>> ELSE SubSeq(s, Min(N), Max(N))

\* markupsafe.escape for one character
escape_char(c) ==
    CASE c = "&" -> <<"&", "a", "m", "p", ";">>
      [] c = "<" -> <<"&", "l", "t", ";">>
      [] c = ">" -> <<"&", "g", "t", ";">>
      [] c = "'" -> <<"&", "#", "3", "9", ";">>
      [] c = "\"" -> <<"&", "#", "3", "4", ";">>
      [] OTHER -> <<c>>

\* markupsafe.escape(s): every character rewritten in place.  The text is
\* split in halves so that the evaluation stays shallow on long texts.
RECURSIVE escape(_)
escape(s) ==
    IF s = <<>> THEN <<>>
    ELSE IF Len(s) = 1 THEN escape_char(s[1])
    ELSE LET h == Len(s) \div 2
         IN escape(SubSeq(s, 1, h)) \o escape(SubSeq(s, h + 1, Len(s)))

---------------------------------------------------------------------------
(* The equation decorator, app.py:43-61.                                   *)

\* the literal delimiters of the two patterns
BlockOpenDelim == <<"\\", "[">>
BlockCloseDelim == <<"\\", "]">>
InlineDelim == <<"$">>

\* the markup block_sub and inline_sub put around the escaped expression
BlockOpenTag ==
    <<"<", "d", "i", "v", " ", "c", "l", "a", "s", "s", "=", "'", "e", "q", "u", "a", "t",
      "i", "o", "n", "-", "b", "l", "o", "c", "k", "'", ">", "<", "c", "o", "d", "e", ">">>
BlockCloseTag == <<"<", "/", "c", "o", "d", "e", ">", "<", "/", "d", "i", "v", ">">>
InlineOpenTag ==
    <<"<", "s", "p", "a", "n", " ", "c", "l", "a", "s", "s", "=", "'", "e", "q", "u", "a",
      "t", "i", "o", "n", "-", "i", "n", "l", "i", "n", "e", "'", ">", "<", "c", "o", "d",
      "e", ">">>
InlineCloseTag == <<"<", "/", "c", "o", "d", "e", ">", "<", "/", "s", "p", "a", "n", ">">>

\* s holds the literal d at position i
HasAt(s, i, d) == i + Len(d) - 1 <= Len(s) /\ SubSeq(s, i, i + Len(d) - 1) = d

\* The match of  open (.+?) close  (DOTALL) that starts at position i of s:
\* the position of the first close delimiter that leaves at least one
\* character for the group, or 0 when the pattern does not match at i.
MatchClose(s, i, open, close) ==
    IF ~HasAt(s, i, open) THEN 0
    ELSE LET C == {j \in (i + Len(open) + 1)..Len(s) : HasAt(s, j, close)}
         IN IF C = {} THEN 0 ELSE Min(C)

\* def block_sub(m), app.py:51-53
block_sub(group) == BlockOpenTag \o escape(strip(group)) \o BlockCloseTag

\* def inline_sub(m), app.py:55-57
inline_sub(group) == InlineOpenTag \o escape(strip(group)) \o InlineCloseTag

\* where the leftmost match of the pattern at or after position i starts, or
\* 0 when there is none
NextMatch(s, i, open, close) ==
    LET M == {k \in i..Len(s) : MatchClose(s, k, open, close) # 0}
    IN IF M = {} THEN 0 ELSE Min(M)

\* _equation_block.sub(block_sub, s) from position i on: the text before the
\* leftmost match is copied, the match is replaced, and the scan goes on
\* after it (the matches do not overlap).
RECURSIVE equation_block_sub(_, _)
equation_block_sub(s, i) ==
    LET k == NextMatch(s, i, BlockOpenDelim, BlockCloseDelim)
    IN IF k = 0 THEN SubSeq(s, i, Len(s))
       ELSE LET j == MatchClose(s, k, BlockOpenDelim, BlockCloseDelim)
            IN SubSeq(s, i, k - 1)
                  \o block_sub(SubSeq(s, k + Len(BlockOpenDelim), j - 1))
                  \o equation_block_sub(s, j + Len(BlockCloseDelim))

\* _equation_inline.sub(inline_sub, s) from position i on
RECURSIVE equation_inline_sub(_, _)
equation_inline_sub(s, i) ==
    LET k == NextMatch(s, i, InlineDelim, InlineDelim)
    IN IF k = 0 THEN SubSeq(s, i, Len(s))
       ELSE LET j == MatchClose(s, k, InlineDelim, InlineDelim)
            IN SubSeq(s, i, k - 1)
                  \o inline_sub(SubSeq(s, k + Len(InlineDelim), j - 1))
                  \o equation_inline_sub(s, j + Len(InlineDelim))

\* a variant that escapes the whole fragment before it looks for equations
decorate_equations_escaping(html_fragment) ==
    LET out == equation_block_sub(escape(html_fragment), 1)
    IN equation_inline_sub(out, 1)

\* def decorate_equations(html_fragment), app.py:46-61
decorate_equations(html_fragment) ==
    LET out == equation_block_sub(html_fragment, 1)
    IN equation_inline_sub(out, 1)

---------------------------------------------------------------------------
(* The defaults and the input normalisation of generate, app.py:20-32 and  *)
(* 162-178.                                                                *)

DEFAULT_grade ==
    <<"G", "r", "a", "d", "e", " ", "1", "0">>

DEFAULT_duration_weeks ==
    <<"4">>

DEFAULT_driving_question ==
    <<"H", "o", "w", " ", "m", "i", "g", "h", "t", " ", "w", "e", " ", "d", "e", "s", "i", "g",
    "n", " ", "a", "n", "d", " ", "v", "a", "l", "i", "d", "a", "t", "e", " ", "a", " ", "s", "o",
    "l", "u", "t", "i", "o", "n", " ", "t", "h", "a", "t", " ", "i", "m", "p", "r", "o", "v", "e",
    "s", " ", "a", " ", "r", "e", "a", "l", "-", "w", "o", "r", "l", "d", " ", "s", "y", "s", "t",
    "e", "m", "?">>

DEFAULT_constraints ==
    <<"T", "i", "m", "e", ",", " ", "b", "u", "d", "g", "e", "t", ",", " ", "s", "a", "f", "e",
    "t", "y", ",", " ", "a", "n", "d", " ", "r", "e", "s", "o", "u", "r", "c", "e", " ", "l", "i",
    "m", "i", "t", "a", "t", "i", "o", "n", "s", " ", "t", "y", "p", "i", "c", "a", "l", " ", "f",
    "o", "r", " ", "t", "h", "i", "s", " ", "g", "r", "a", "d", "e", " ", "l", "e", "v", "e", "l",
    ".">>

\* DEFAULTS, app.py:20-32 (pbl_rules is not a request field: generate reads
\* it unchanged, line 177)
DEFAULTS ==
    [grade |-> DEFAULT_grade,
     duration_weeks |-> DEFAULT_duration_weeks,
     driving_question |-> DEFAULT_driving_question,
     constraints |-> DEFAULT_constraints]

RequiredFields == {"title", "topic"}
OptionalFields == {"grade", "duration_weeks", "driving_question", "constraints"}

\* (data.get(k) or "").strip(), app.py:167-168
required_field(data, k) == strip(OrElse(data[k], <<>>))

\* (data.get(k) or DEFAULTS[k]).strip(), app.py:173-176
optional_field(data, k) == strip(OrElse(data[k], DEFAULTS[k]))

\* a variant of the check that rejects only when both fields are empty
missing_required_both(data) ==
    required_field(data, "title") = <<>> /\ required_field(data, "topic") = <<>>

\* `if not title or not topic`, app.py:169
missing_required(data) ==
    required_field(data, "title") = <<>> \/ required_field(data, "topic") = <<>>

\* the locals generate holds after line 176
normalized(data) ==
    [title |-> required_field(data, "title"),
     topic |-> required_field(data, "topic"),
     grade |-> optional_field(data, "grade"),
     duration_weeks |-> optional_field(data, "duration_weeks"),
     driving_question |-> optional_field(data, "driving_question"),
     constraints |-> optional_field(data, "constraints")]

\* the body of the 400 response, app.py:170
RequiredError == "Title and Topic are required."

\* jsonify({"ok": False, "error": ...}), status
error_response(status, message) == [status |-> status, ok |-> FALSE, error |-> message]

---------------------------------------------------------------------------
(* Document assembly, app.py:64-151, and the renderer adapter, 35-40.      *)

\* the placeholder character U+2014 of build_cover_html, written "-" here
Dash == <<"-">>

\* escape(x or "—"), app.py:66-71
cover_cell(x) == escape(IF x # <<>> THEN x ELSE Dash)

\* def build_cover_html: the cover block, given by the cells it interpolates
build_cover_html(title, topic, grade, duration_weeks, driving_question, constraints) ==
    [title |-> cover_cell(title),
     topic |-> cover_cell(topic),
     grade |-> cover_cell(grade),
     dur |-> cover_cell(duration_weeks),
     dq |-> cover_cell(driving_question),
     con |-> cover_cell(constraints)]

\* def build_shell_html: the document, given by the two parts it interpolates
build_shell_html(cover_html, body_html) == [cover |-> cover_html, body |-> body_html]

\* What pisa.CreatePDF can do with a document: raise, or return a status
\* (err = 0 on success) after writing some bytes to dest.  A successful
\* render writes a non-empty PDF; a failed one may leave dest empty or hold
\* a part of the output.
RenderOutcomes ==
    {[raises |-> TRUE, err |-> 0, buf |-> <<>>]}
        \cup {[raises |-> FALSE, err |-> 0, buf |-> b] : b \in {<<37, 80>>, <<37, 80, 68>>}}
        \cup {[raises |-> FALSE, err |-> 1, buf |-> b] : b \in {<<>>, <<37>>}}

\* def html_to_pdf_bytes, app.py:35-40, once CreatePDF has returned: the
\* status CreatePDF returns is dropped, the buffer is read back whole.
html_to_pdf_bytes(outcome) == outcome.buf

\* title.replace(' ', '_') + ".pdf", app.py:247
replace_spaces(s) == [i \in 1..Len(s) |-> IF s[i] = " " THEN "_" ELSE s[i]]

pdf_filename(title) == replace_spaces(title) \o <<".", "p", "d", "f">>

---------------------------------------------------------------------------
(* The server: worker contexts running generate and download.              *)

Workers == 1..NumWorkers

\* the identifiers uuid.uuid4() can return
Ids == 1..MaxIds

\* a request body for /generate with the optional fields absent
Body(title, topic) ==
    [title |-> title, topic |-> topic, grade |-> None, duration_weeks |-> None,
     driving_question |-> None, constraints |-> None]

\* the request bodies sent to /generate: one with both required fields, and
\* for each required field one where it is absent, empty or blank
GenerateRequests ==
    {Body(Str(<<" ", "a", " ", "b">>), Str(<<"c">>))}
        \cup {Body(t, Str(<<"c">>)) : t \in {None, Str(<<>>), Str(<<" ">>)}}
        \cup {Body(Str(<<"a">>), p) : p \in {None, Str(<<>>), Str(<<" ">>)}}

\* What client.chat.completions.create can do: raise, return no choice, or
\* return one choice whose message content is None or a str.
BackendOutcomes ==
    {[raises |-> TRUE, message |-> "Connection error.", choices |-> <<>>],
     [raises |-> FALSE, message |-> "", choices |-> <<>>]}
        \cup {[raises |-> FALSE, message |-> "", choices |-> <<c>>] :
                c \in {None, Str(<<>>), Str(<<" ", "$", "x", "$">>)}}

\* str(e) of the IndexError of resp.choices[0] on an empty list
IndexErrorMessage == "list index out of range"
\* str(e) of whatever pisa.CreatePDF raises
RenderErrorMessage == "render failed"

\* a variant of the except branch that leaves the status out of the return
except_response_no_status(message) == error_response(200, message)

\* `return jsonify({"ok": False, "error": str(e)}), 500`, app.py:249-250
except_response(message) == error_response(500, message)

\* a variant that puts a placeholder text in place of an empty body
completion_text_placeholder(content) == strip(OrElse(content, <<"(", "e", "m", "p", "t", "y", ")">>))

\* (resp.choices[0].message.content or "").strip(), app.py:230
completion_text(content) == strip(OrElse(content, <<>>))

NoLocals == [set |-> FALSE]
NoResponse == [status |-> 0]

\* A worker context with no request: pc is the handler's position, data the
\* request body, loc the handler's locals.  The other fields are history of
\* the request in progress: the calls it has made to the backend and to the
\* renderer, its writes to GENERATED, and whether the renderer reported a
\* failure for it.
Idle ==
    [pc |-> "idle", data |-> None, loc |-> NoLocals, backend_calls |-> 0,
     render_calls |-> 0, stores |-> 0, render_failed |-> FALSE]

\* Before any request is answered.  Afterwards `last` is the request answered
\* most recently: which handler, its input (data or arg), its response, the
\* history of the request, and the message of the exception the backend call
\* raised ("" when none).
NoRequest ==
    [kind |-> "none", data |-> None, arg |-> 0, resp |-> NoResponse,
     backend_calls |-> 0, render_calls |-> 0, stores |-> 0,
     render_failed |-> FALSE, fault |-> ""]

\* the generate request of worker context me, answered with resp
Answered(me, resp) ==
    [NoRequest EXCEPT !.kind = "generate", !.data = me.data, !.resp = resp,
                      !.backend_calls = me.backend_calls,
                      !.render_calls = me.render_calls,
                      !.stores = me.stores,
                      !.render_failed = me.render_failed]

\* the generate requests that have passed validation and not yet stored
InFlight == {w \in Workers : worker[w].pc \in {"calling", "rendering"}}

\* the model's bound on stored artifacts: a valid request is taken up only
\* when an identifier is left for it
HasRoom == Cardinality(DOMAIN GENERATED) + Cardinality(InFlight) < MaxIds

\* the handler of worker w returns: the response goes out and the worker
\* context is free for the next request
Return(w, answered) ==
    /\ worker' = [worker EXCEPT ![w] = Idle]
    /\ last' = answered

\* generate, app.py:162-218: read the body, check the required fields,
\* fill the optional ones, build the prompts
GenerateStart(w, data) ==
    /\ worker[w].pc = "idle"
    /\ IF missing_required(data)
       THEN Return(w, Answered([Idle EXCEPT !.data = data],
                               error_response(400, RequiredError)))
       ELSE /\ HasRoom
            /\ worker' = [worker EXCEPT ![w] =
                  [Idle EXCEPT !.pc = "calling", !.data = data,
                               !.loc = normalized(data)]]
            /\ UNCHANGED last
    /\ UNCHANGED <<GENERATED, issued, put_log, normVars, decVars>>

\* generate, app.py:220-237: the one call to the completion service, then
\* the fragment is taken from the first choice, decorated and assembled
CallBackend(w, outcome) ==
    /\ worker[w].pc = "calling"
    /\ LET me == [worker[w] EXCEPT !.backend_calls = @ + 1]
           l == me.loc
       IN IF outcome.raises \/ outcome.choices = <<>>
          THEN Return(w, [Answered(me, except_response(
                                  IF outcome.raises THEN outcome.message
                                  ELSE IndexErrorMessage))
                            EXCEPT !.fault = outcome.message])
          ELSE LET content == outcome.choices[1]
                   raw == completion_text(content)
                   fragment1 == decorate_equations(raw)
                   cover_html == build_cover_html(l.title, l.topic, l.grade,
                                    l.duration_weeks, l.driving_question, l.constraints)
                   full_html == build_shell_html(cover_html, fragment1)
               IN /\ worker' = [worker EXCEPT ![w] =
                        [me EXCEPT !.pc = "rendering",
                                   !.loc = [title |-> l.title, content |-> content,
                                            raw |-> raw, fragment |-> fragment1,
                                            full_html |-> full_html]]]
                  /\ UNCHANGED last
    /\ UNCHANGED <<GENERATED, issued, put_log, normVars, decVars>>

\* generate, app.py:239-250: the one call to the renderer, a fresh
\* identifier, the store into GENERATED and the success response that
\* carries the identifier.  The store and the return are one step: between
\* them the handler reads and writes nothing shared, and no one else holds
\* the identifier yet.
RenderAndStore(w, outcome, file_id) ==
    /\ worker[w].pc = "rendering"
    /\ file_id \notin DOMAIN GENERATED
    /\ LET me == [worker[w] EXCEPT !.render_calls = @ + 1]
       IN IF outcome.raises
          THEN /\ Return(w, Answered([me EXCEPT !.render_failed = TRUE],
                                     except_response(RenderErrorMessage)))
               /\ UNCHANGED <<GENERATED, put_log, issued>>
          ELSE LET pdf_bytes == html_to_pdf_bytes(outcome)
               IN /\ GENERATED' = [i \in DOMAIN GENERATED \cup {file_id} |->
                                      IF i = file_id THEN pdf_bytes ELSE GENERATED[i]]
                  /\ put_log' = [i \in DOMAIN put_log \cup {file_id} |->
                                      IF i = file_id THEN pdf_bytes ELSE put_log[i]]
                  /\ issued' = issued \cup {file_id}
                  /\ Return(w, Answered(
                        [me EXCEPT !.stores = @ + 1,
                                   !.render_failed = (outcome.err # 0)],
                        [status |-> 200, ok |-> TRUE,
                         result_html |-> me.loc.fragment,
                         pdf_id |-> file_id,
                         pdf_filename |-> pdf_filename(me.loc.title)]))
    /\ UNCHANGED <<normVars, decVars>>

\* GENERATED.get(file_id), app.py:255: None when the key is absent
generated_get(file_id) ==
    IF file_id \in DOMAIN GENERATED THEN Str(GENERATED[file_id]) ELSE None

\* a variant with the test inverted
not_pdf_inverted(pdf) == pdf.some /\ pdf.v # <<>>

\* `if not pdf`, app.py:256: None and b"" are both falsy
not_pdf(pdf) == ~pdf.some \/ pdf.v = <<>>

\* def download(file_id), app.py:253-263
download_response(file_id) ==
    LET pdf == generated_get(file_id)
    IN IF not_pdf(pdf) THEN [status |-> 404]
       ELSE [status |-> 200, body |-> pdf.v, download_name |-> "project_brief.pdf"]

Download(w, file_id) ==
    /\ worker[w].pc = "idle"
    /\ Return(w, [NoRequest EXCEPT !.kind = "download", !.arg = file_id,
                     !.resp = download_response(file_id)])
    /\ UNCHANGED <<GENERATED, issued, put_log, normVars, decVars>>

ServerInit ==
    /\ GENERATED = <<>>
    /\ worker = [w \in Workers |-> Idle]
    /\ last = NoRequest
    /\ issued = {}
    /\ put_log = <<>>

NormIdle == ndata = None /\ npc = "off" /\ nout = None
DecIdle == text = <<>> /\ fragment = <<>> /\ prev = <<>> /\ runs = 0

Init == ServerInit /\ NormIdle /\ DecIdle

Next ==
    \/ \E w \in Workers, data \in GenerateRequests : GenerateStart(w, data)
    \/ \E w \in Workers, outcome \in BackendOutcomes : CallBackend(w, outcome)
    \/ \E w \in Workers, outcome \in RenderOutcomes, file_id \in Ids :
          RenderAndStore(w, outcome, file_id)
    \/ \E w \in Workers, file_id \in Ids : Download(w, file_id)

Spec == Init /\ [][Next]_vars

---------------------------------------------------------------------------
(* The input normaliser alone: generate up to line 177, on every request   *)
(* body built from short field values.                                     *)

\* all texts over the characters of chars, at most n long
TextsUpTo(chars, n) == UNION {[1..k -> chars] : k \in 0..n}

\* what a client can send for an optional field: nothing, or a text of at
\* most n spaces and letters
FieldValues(n) == {None} \cup {Str(s) : s \in TextsUpTo({" ", "a"}, n)}

\* the request bodies whose optional fields are drawn from V
NormRequests(V) ==
    {[title |-> t, topic |-> p, grade |-> g, duration_weeks |-> d,
      driving_question |-> q, constraints |-> c] :
        t \in {Str(<<" ">>), Str(<<"a", " ">>)}, p \in {None, Str(<<"c">>)},
        g \in V, d \in V, q \in V, c \in V}

InitNorm ==
    /\ ndata \in NormRequests(FieldValues(MaxFieldLen))
    /\ npc = "start"
    /\ nout = None
    /\ ServerInit
    /\ DecIdle

\* generate, app.py:164-177
InputNormalizer ==
    /\ npc = "start"
    /\ npc' = "done"
    /\ nout' = IF missing_required(ndata)
               THEN error_response(400, RequiredError)
               ELSE [status |-> 0, ok |-> TRUE, fields |-> normalized(ndata)]
    /\ UNCHANGED <<ndata, serverVars, decVars>>

SpecNorm == InitNorm /\ [][InputNormalizer]_vars

---------------------------------------------------------------------------
(* The equation decorator alone, run on every short text and then on its   *)
(* own output.                                                             *)

\* The texts are built from these pieces, so that short texts hold whole
\* delimiters: the two block delimiters, the dollar sign, a letter, a
\* space and a character that escape rewrites.
Pieces == {BlockOpenDelim, BlockCloseDelim, InlineDelim, <<"x">>, <<" ">>, <<"<">>}

RECURSIVE Concat(_)
Concat(ps) == IF ps = <<>> THEN <<>> ELSE Head(ps) \o Concat(Tail(ps))

\* the texts of at most n pieces
DecoratorTexts(n) == {Concat(ps) : ps \in TextsUpTo(Pieces, n)}

InitDec ==
    /\ text \in DecoratorTexts(MaxPieces)
    /\ fragment = text
    /\ prev = text
    /\ runs = 0
    /\ ServerInit
    /\ NormIdle

\* fragment = decorate_equations(fragment), app.py:233
Decorate ==
    /\ runs < MaxRuns
    /\ prev' = fragment
    /\ fragment' = decorate_equations(fragment)
    /\ runs' = runs + 1
    /\ UNCHANGED <<text, serverVars, normVars>>

SpecDec == InitDec /\ [][Decorate]_vars

---------------------------------------------------------------------------
(* The claims.                                                             *)

\* a field value that is missing, or empty once its whitespace is trimmed
Blank(x) == ~x.some \/ \A i \in 1..Len(x.v) : IsSpace(x.v[i])

\* C1: a /generate request whose title or topic is missing or empty after
\* trimming ends with the 400 response {ok: false, error: "Title and Topic
\* are required."}, has called neither the backend nor the renderer, and has
\* written nothing to GENERATED.
C1_ValidationRejects ==
    (last.kind = "generate" /\ (Blank(last.data.title) \/ Blank(last.data.topic)))
    => /\ last.resp = [status |-> 400, ok |-> FALSE, error |-> RequiredError]
       /\ last.backend_calls = 0
       /\ last.render_calls = 0
       /\ last.stores = 0

C1_Witness ==
    /\ last.kind = "generate"
    /\ last.data.title = Str(<<" ">>)
    /\ last.resp.status = 400
    /\ GENERATED # <<>>

\* C2: a download with an identifier that an earlier successful generate
\* returned answers with exactly the bytes generate stored under it, whatever
\* those bytes are (a zero-length byte string too), and no step evicts,
\* overwrites or changes an entry of GENERATED.
C2_DownloadReturnsStored ==
    [][/\ (last' # last /\ last'.kind = "download" /\ last'.arg \in issued)
            => (last'.resp.status = 200 /\ last'.resp.body = put_log[last'.arg])
       /\ \A i \in DOMAIN GENERATED :
            i \in DOMAIN GENERATED' /\ GENERATED'[i] = GENERATED[i]]_vars

\* C3: when the backend call raises, the response is {ok: false, error:
\* <message>} with status 500, the renderer is never called for the request
\* and the request writes nothing to GENERATED.
C3_BackendFault ==
    last.fault # ""
    => /\ last.resp = [status |-> 500, ok |-> FALSE, error |-> last.fault]
       /\ last.backend_calls = 1
       /\ last.render_calls = 0
       /\ last.stores = 0

C3_Witness ==
    /\ last.kind = "generate"
    /\ last.fault = "Connection error."
    /\ last.resp.status = 500
    /\ GENERATED # <<>>

\* C4: whenever the renderer reports a failure for a request's document, by
\* raising or by returning an error status, the request ends in a 500
\* response and stores nothing in GENERATED.
C4_RenderFailureStoresNothing ==
    last.render_failed => (last.resp.status = 500 /\ last.stores = 0)

\* C5: a download with an identifier that no generate request has ever drawn
\* and stored answers 404 with no bytes, and does not write to GENERATED.
C5_UnknownIdNotFound ==
    (last.kind = "download" /\ last.arg \notin DOMAIN put_log)
    => /\ last.resp = [status |-> 404]
       /\ last.stores = 0
       /\ last.arg \notin DOMAIN GENERATED

C5_Witness ==
    /\ last.kind = "download"
    /\ last.arg \notin DOMAIN put_log
    /\ last.resp.status = 404
    /\ GENERATED # <<>>

\* C6: under every interleaving of generate and download requests, no step
\* loses or overwrites a stored artifact, and a download given an identifier
\* already returned to a caller finds the bytes stored under it: never 404.
C6_ConcurrentStore ==
    [][/\ \A i \in DOMAIN GENERATED :
            i \in DOMAIN GENERATED' /\ GENERATED'[i] = GENERATED[i]
       /\ (last' # last /\ last'.kind = "download" /\ last'.arg \in issued)
            => (last'.resp.status # 404 /\ last'.resp.body = GENERATED[last'.arg])]_vars

\* the backend returned a completion whose body is null or empty
EmptyBody(content) == ~content.some \/ content.v = <<>>

\* C7: when the backend returns an empty or null completion body, the text
\* handed to decorate_equations and embedded in the document is a non-empty
\* placeholder, never the empty string.
C7_PlaceholderForEmptyBody ==
    \A w \in Workers :
        (worker[w].pc = "rendering" /\ EmptyBody(worker[w].loc.content))
        => /\ worker[w].loc.raw # <<>>
           /\ worker[w].loc.full_html.body # <<>>

\* C7 as amended: when the backend returns an empty or null completion body,
\* the generation step does not fail and no placeholder is put in its place:
\* the text handed to decorate_equations and the body embedded in the
\* document are the empty string.
C7_EmptyBodyStaysEmpty ==
    \A w \in Workers :
        (worker[w].pc = "rendering" /\ EmptyBody(worker[w].loc.content))
        => /\ worker[w].backend_calls = 1
           /\ worker[w].loc.raw = <<>>
           /\ worker[w].loc.fragment = <<>>
           /\ worker[w].loc.full_html.body = <<>>

C7_Witness ==
    \E w \in Workers :
        /\ worker[w].pc = "rendering"
        /\ worker[w].loc.content = None
        /\ worker[w].backend_calls = 1

\* C8: for a valid request each optional field is normalised on its own: it
\* is its DEFAULTS value when the supplied value is absent or blank, the
\* trimmed supplied value otherwise, and so it is never empty.
C8_OptionalFieldsDefaulted ==
    (npc = "done" /\ nout.ok)
    => \A k \in OptionalFields :
          /\ nout.fields[k] = IF Blank(ndata[k]) THEN DEFAULTS[k] ELSE strip(ndata[k].v)
          /\ nout.fields[k] # <<>>

\* the expressions the block pattern matches in s from position i on
RECURSIVE BlockGroups(_, _)
BlockGroups(s, i) ==
    LET k == NextMatch(s, i, BlockOpenDelim, BlockCloseDelim)
    IN IF k = 0 THEN {}
       ELSE LET j == MatchClose(s, k, BlockOpenDelim, BlockCloseDelim)
            IN {SubSeq(s, k + Len(BlockOpenDelim), j - 1)}
                  \cup BlockGroups(s, j + Len(BlockCloseDelim))

\* p occurs in s as a run of consecutive characters
IsSubstring(p, s) == \E i \in 1..Len(s) : HasAt(s, i, p)

\* C9: a block expression that holds a literal dollar sign is not split by
\* the inline rule: its block element, with the whole escaped expression
\* inside and no inline element in it, stands in the decorated text.
C9_BlockNotSplit ==
    runs = 1
    => \A g \in BlockGroups(text, 1) :
          (\E i \in 1..Len(g) : g[i] = "$") => IsSubstring(block_sub(g), fragment)

\* s holds a delimiter pair that decorate_equations would rewrite
HasPair(s) ==
    \/ NextMatch(s, 1, BlockOpenDelim, BlockCloseDelim) # 0
    \/ NextMatch(s, 1, InlineDelim, InlineDelim) # 0

\* C10: decorate_equations is idempotent on its own output: for every text
\* t, decorate_equations(decorate_equations(t)) = decorate_equations(t).
C10_Idempotent == runs >= 2 => fragment = prev

\* C10 as amended: decorate_equations is idempotent on decorated output that
\* holds no remaining delimiter pair: for every text t such that
\* decorate_equations(t) holds no \[...\] and no $...$ pair, running it again
\* leaves decorate_equations(t) unchanged.
C10_IdempotentWithoutPairs == (runs >= 2 /\ ~HasPair(prev)) => fragment = prev

C10_Witness ==
    /\ runs = 2
    /\ HasPair(text)
    /\ ~HasPair(prev)
    /\ \E i \in 1..Len(text) : text[i] = "<"
    /\ fragment = prev

====
